---- MODULE Spec2Model ----
(***************************************************************************)
(* A model of mysword_to_epub.py: the EPUB assembly done by create_epub    *)
(* (index page, chapter pages, cross-reference page, manifest, spine and   *)
(* navigation map) on the mappings that main() fetches from the three      *)
(* SQLite databases, and the verse text normaliser strip_mysword_tags.     *)
(*                                                                         *)
(* Python strings are sequences of one-character strings, so that every    *)
(* file name, id and href is built and compared the way the f-strings      *)
(* build it. A generated XHTML document is the sequence of its elements.   *)
(***************************************************************************)
EXTENDS Integers, Sequences, FiniteSets, TLC

\* ------------------------------------------------------------- bounds
MaxBook == 2
MaxRows == 3
MaxXrefs == 2
MaxTok == 3

\* ------------------------------------------------------------ strings
NoStr == << >>

Range(s) == {s[i] : i \in 1..Len(s)}

DigitChars == <<"0", "1", "2", "3", "4", "5", "6", "7", "8", "9">>

IsDigit(ch) == ch \in Range(DigitChars)

\* Python's \s and str.strip() on the characters the model uses.
IsSpace(ch) == ch \in {" ", "\n", "\t"}

\* str(n) of a non-negative integer, as the f-strings format it.
RECURSIVE Str(_)
Str(n) ==
  IF n < 10 THEN <<DigitChars[n + 1]>>
  ELSE Str(n \div 10) \o <<DigitChars[(n % 10) + 1]>>

RECURSIVE Concat(_)
Concat(ss) == IF ss = << >> THEN << >> ELSE Head(ss) \o Concat(Tail(ss))

\* Does pattern p (a literal) occur in s at position i?
MatchAt(s, i, p) ==
  /\ i + Len(p) - 1 <= Len(s)
  /\ \A k \in 1..Len(p) : s[i + k - 1] = p[k]

\* The length of the leading run of digits of s.
DigitRun(s) ==
  CHOOSE k \in 0..Len(s) :
    /\ \A j \in 1..k : IsDigit(s[j])
    /\ k < Len(s) => ~IsDigit(s[k + 1])

\* re.sub(r'^(\d+)(?=[^\d\.\s])', r'\1. ', s)
book_title_formatter(s) ==
  LET k == DigitRun(s)
  IN  IF k >= 1 /\ k < Len(s) /\ s[k + 1] # "." /\ ~IsSpace(s[k + 1])
      THEN SubSeq(s, 1, k) \o <<".", " ">> \o SubSeq(s, k + 1, Len(s))
      ELSE s

\* ------------------------------------------------- sorting (sorted())
Min(S) == CHOOSE x \in S : \A y \in S : x <= y

RECURSIVE SortedInts(_)
SortedInts(S) ==
  IF S = {} THEN << >> ELSE <<Min(S)>> \o SortedInts(S \ {Min(S)})

\* Python's tuple order on (book, chapter, verse).
CoordLess(a, b) ==
  \/ a[1] < b[1]
  \/ a[1] = b[1] /\ a[2] < b[2]
  \/ a[1] = b[1] /\ a[2] = b[2] /\ a[3] < b[3]

CoordLeq(a, b) == a = b \/ CoordLess(a, b)

MinCoord(S) == CHOOSE x \in S : \A y \in S : CoordLeq(x, y)

RECURSIVE SortedCoords(_)
SortedCoords(S) ==
  IF S = {} THEN << >>
  ELSE <<MinCoord(S)>> \o SortedCoords(S \ {MinCoord(S)})

\* sorted(d.keys(), reverse=True): the keys in descending order.
RECURSIVE SortedDesc(_)
SortedDesc(S) ==
  IF S = {} THEN << >> ELSE SortedDesc(S \ {Min(S)}) \o <<Min(S)>>

SortedKeys_Reversed(d) == SortedDesc(DOMAIN d)

\* sorted(d.keys()) of a mapping keyed by integers.
SortedKeys(d) == SortedInts(DOMAIN d)

\* A Python mapping is truthy when it has a key.
Truthy(d) == DOMAIN d # {}

EmptyMap == [k \in {} |-> << >>]

\* ------------------------------------------------ the database inputs
BookIds == 1..MaxBook
\* The chapter and verse numbers of the Bible table's rows.
ChapterNums == {2, 10}
VerseNums == {1, 2}
Coords == BookIds \X ChapterNums \X VerseNums

\* The Scripture column: << >> is NULL, <<s>> the text s.
NullText == << >>
SampleText == << <<"<", "C", "M", ">", "a", " ", "&", "<", "b">> >>
TextOf(v) == IF v % 2 = 1 THEN SampleText ELSE NullText

\* The name column of biblebooks for book b, when it has one.
NameOf(b) == IF b % 2 = 1 THEN <<"1", "J", "n">> ELSE <<"G", "e">>

\* Sets of at most k coordinates.
RECURSIVE CoordSets(_, _)
CoordSets(U, k) ==
  IF k = 0 THEN {{}}
  ELSE LET prev == CoordSets(U, k - 1)
       IN  prev \cup {S \cup {c} : S \in prev, c \in U}

\* SELECT Book, Chapter, Verse, Scripture FROM Bible ORDER BY Book, Chapter, Verse
BibleRows(S) ==
  LET cs == SortedCoords(S)
  IN  [i \in 1..Len(cs) |-> <<cs[i][1], cs[i][2], cs[i][3], TextOf(cs[i][3])>>]

\* The biblebooks tables: any set of books, each with an empty or a real name.
BookTables ==
  UNION {[D -> {0, 1}] : D \in SUBSET BookIds}

fetch_books(t) == [b \in DOMAIN t |-> IF t[b] = 0 THEN NoStr ELSE NameOf(b)]

fetch_verses(rows) ==
  LET bs == {rows[i][1] : i \in 1..Len(rows)}
      cs(b) == {rows[i][2] : i \in {j \in 1..Len(rows) : rows[j][1] = b}}
      sel(b, c) == SelectSeq(rows, LAMBDA r : r[1] = b /\ r[2] = c)
  IN  [b \in bs |->
        [c \in cs(b) |->
          [i \in 1..Len(sel(b, c)) |-> <<sel(b, c)[i][3], sel(b, c)[i][4]>>]]]

\* Sequences of at most k cross-reference rows <<from, to>> over the pairs P,
\* in the order of ORDER BY fbi, fci, fvi (rows with equal keys in any order).
RECURSIVE XrefRowSeqs(_, _)
XrefRowSeqs(P, k) ==
  IF k = 0 THEN {<< >>}
  ELSE LET prev == XrefRowSeqs(P, k - 1)
           ext(s) == {Append(s, p) :
                       p \in {q \in P : \A i \in 1..Len(s) : CoordLeq(s[i][1], q[1])}}
       IN  prev \cup UNION {ext(s) : s \in {t \in prev : Len(t) = k - 1}}

\* fetch_cross_references: without a cross-reference database both indices
\* are empty; otherwise each row is entered in both, in row order.
fetch_xrefs_from(x) ==
  IF ~x.db THEN EmptyMap
  ELSE [k \in {x.rows[i][1] : i \in 1..Len(x.rows)} |->
         LET sel == SelectSeq(x.rows, LAMBDA r : r[1] = k)
         IN  [i \in 1..Len(sel) |-> sel[i][2]]]

fetch_xrefs_to(x) ==
  IF ~x.db THEN EmptyMap
  ELSE [k \in {x.rows[i][2] : i \in 1..Len(x.rows)} |->
         LET sel == SelectSeq(x.rows, LAMBDA r : r[2] = k)
         IN  [i \in 1..Len(sel) |-> sel[i][1]]]

\* ------------------------------------------------ names, ids and hrefs
Lit_html == <<".", "h", "t", "m", "l">>

\* f'b{book_id}c{chap}.html'
ChapterFile(b, c) == <<"b">> \o Str(b) \o <<"c">> \o Str(c) \o Lit_html

\* f'{book_id}-{chap}'
ItemId(b, c) == Str(b) \o <<"-">> \o Str(c)

\* f'{book_id}-{chap}-{vnum}'
VerseNavId(b, c, v) == Str(b) \o <<"-">> \o Str(c) \o <<"-">> \o Str(v)

\* f'x{book_id}-{chapter}-{verse}'
XrefAnchor(b, c, v) == <<"x">> \o Str(b) \o <<"-">> \o Str(c) \o <<"-">> \o Str(v)

IndexFile == <<"i">> \o Lit_html
XrefFile == <<"x">> \o Lit_html
NcxFile == <<"t", "o", "c", ".", "n", "c", "x">>
CssFile == <<"s", "t", "y", "l", "e", "s", ".", "c", "s", "s">>
OpfFile == <<"c", "o", "n", "t", "e", "n", "t", ".", "o", "p", "f">>
Hash == <<"#">>
IndexAnchorHref == IndexFile \o Hash \o <<"b">>
TocId == <<"t", "o", "c">>

\* An element of a generated document.
El(tag, id, href, class, text) ==
  [tag |-> tag, id |-> id, href |-> href, class |-> class, text |-> text]

Link(href, text) == El("a", NoStr, href, "", text)
Text(t) == El("text", NoStr, NoStr, "", t)
Tag(tag) == El(tag, NoStr, NoStr, "", NoStr)

\* ------------------------------------------------- strip_mysword_tags
\* A pattern of the pipeline: its kind, its literal parts a and b, whether it
\* ignores case, and whether the replacement keeps the group (r'\1').
Pat(kind, a, b, ci, keep) == [kind |-> kind, a |-> a, b |-> b, ci |-> ci, keep |-> keep]

\* re.IGNORECASE on the letters of the patterns.
Lower(ch) ==
  CASE ch = "F" -> "f" [] ch = "I" -> "i" [] ch = "R" -> "r" [] ch = "U" -> "u"
    [] OTHER -> ch

MatchAtCI(s, i, p) ==
  /\ i + Len(p) - 1 <= Len(s)
  /\ \A k \in 1..Len(p) : Lower(s[i + k - 1]) = Lower(p[k])

MatchTag(s, i, p, ci) == IF ci THEN MatchAtCI(s, i, p) ELSE MatchAt(s, i, p)

\* A literal pattern.
LitEnd(s, i, p) == IF MatchAt(s, i, p) THEN i + Len(p) ELSE 0

\* open(.*?)close : the nearest close after the open, with no newline between
\* them ('.' does not match a newline).
PairCloseAt(s, i, open, close, ci) ==
  {j \in (i + Len(open))..Len(s) :
     /\ MatchTag(s, j, close, ci)
     /\ \A k \in (i + Len(open))..(j - 1) : s[k] # "\n"}

NearestEnd(closes, close) == IF closes = {} THEN 0 ELSE Min(closes) + Len(close)

PairEnd(s, i, open, close, ci) ==
  IF MatchTag(s, i, open, ci)
  THEN NearestEnd(PairCloseAt(s, i, open, close, ci), close)
  ELSE 0

\* r'\1' of a pair: what stands between the open and the close.
Inner(s, i, j, open, close) == SubSeq(s, i + Len(open), j - Len(close) - 1)

\* The run of digits of s that starts at position i.
DigitsFrom(s, i) ==
  CHOOSE k \in 0..(Len(s) - i + 1) :
    /\ \A j \in i..(i + k - 1) : IsDigit(s[j])
    /\ i + k <= Len(s) => ~IsDigit(s[i + k])

\* prefix\d+> (greedy digits, then the closing bracket)
NumTagClose(s, d, k) == IF k >= 1 /\ MatchAt(s, d + k, <<">">>) THEN d + k + 1 ELSE 0

NumTagEnd(s, i, prefix) ==
  IF MatchAt(s, i, prefix)
  THEN NumTagClose(s, i + Len(prefix), DigitsFrom(s, i + Len(prefix)))
  ELSE 0

\* prefix\d> (exactly one digit)
DigitTagEnd(s, i, prefix) ==
  LET d == i + Len(prefix)
  IN  IF MatchAt(s, i, prefix) /\ d + 1 <= Len(s) /\ IsDigit(s[d]) /\ s[d + 1] = ">"
      THEN d + 2 ELSE 0

\* <[^<>]*> : a safety net that removes only the tags with no '<' inside.
AnyTagEnd_Innermost(s, i) ==
  IF s[i] = "<"
  THEN NearestEnd({j \in (i + 1)..Len(s) :
                     s[j] = ">" /\ \A k \in (i + 1)..(j - 1) : s[k] \notin {"<", ">"}},
                  <<">">>)
  ELSE 0

\* <[^>]*> : from a '<' to the next '>'
AnyTagEnd(s, i) ==
  IF s[i] = "<"
  THEN NearestEnd({j \in (i + 1)..Len(s) : s[j] = ">"}, <<">">>)
  ELSE 0

\* \s+ : a maximal run of whitespace
SpaceRunEnd(s, i) ==
  IF ~IsSpace(s[i]) THEN 0
  ELSE Min({j \in (i + 1)..(Len(s) + 1) : j = Len(s) + 1 \/ ~IsSpace(s[j])})

\* The position just after the match of pat that starts at i; 0 when no match
\* starts at i. No pattern of the pipeline matches the empty string.
MatchEnd(pat, s, i) ==
  CASE pat.kind = "lit" -> LitEnd(s, i, pat.a)
    [] pat.kind = "pair" -> PairEnd(s, i, pat.a, pat.b, pat.ci)
    [] pat.kind = "num" -> NumTagEnd(s, i, pat.a)
    [] pat.kind = "digit" -> DigitTagEnd(s, i, pat.a)
    [] pat.kind = "any" -> AnyTagEnd(s, i)
    [] pat.kind = "space" -> SpaceRunEnd(s, i)

\* What replaces the match s[i..j-1] of pat.
Replacement(pat, s, i, j) ==
  CASE pat.kind = "pair" /\ pat.keep -> Inner(s, i, j, pat.a, pat.b)
    [] pat.kind = "space" -> <<" ">>
    [] OTHER -> << >>

\* re.sub(pat, repl, s): the leftmost matches, scanning left to right.
RECURSIVE SubFrom(_, _, _)
\* The scan at position i, where the match (if any) ends just before j.
SubAt(pat, s, i, j) ==
  IF j = 0 THEN <<s[i]>> \o SubFrom(pat, s, i + 1)
  ELSE Replacement(pat, s, i, j) \o SubFrom(pat, s, j)

SubFrom(pat, s, i) ==
  IF i > Len(s) THEN << >> ELSE SubAt(pat, s, i, MatchEnd(pat, s, i))

ReSub(pat, s) == SubFrom(pat, s, 1)

\* str.strip()
Max(S) == CHOOSE x \in S : \A y \in S : y <= x

Trimmed(s, keep) == IF keep = {} THEN << >> ELSE SubSeq(s, Min(keep), Max(keep))

StrStrip(s) == Trimmed(s, {i \in 1..Len(s) : ~IsSpace(s[i])})

T_CM == <<"<", "C", "M", ">">>
T_FI == <<"<", "F", "I", ">">>
T_Fi == <<"<", "F", "i", ">">>
T_FR == <<"<", "F", "R", ">">>
T_Fr == <<"<", "F", "r", ">">>
T_FU == <<"<", "F", "U", ">">>
T_Fu == <<"<", "F", "u", ">">>
T_RF == <<"<", "R", "F", ">">>
T_Rf == <<"<", "R", "f", ">">>
T_TS == <<"<", "T", "S", ">">>
T_TSc == <<"<", "/", "T", "S", ">">>
T_Q == <<"<", "Q", ">">>
T_Qc == <<"<", "/", "Q", ">">>
T_E == <<"<", "E", ">">>
T_Ec == <<"<", "/", "E", ">">>
T_X == <<"<", "X", ">">>
T_Xc == <<"<", "/", "X", ">">>

\* The substitutions of strip_mysword_tags, in the order it applies them.
Pipeline ==
  <<Pat("lit", T_CM, NoStr, FALSE, FALSE),
    Pat("pair", T_FI, T_Fi, TRUE, TRUE),
    Pat("pair", T_FR, T_Fr, TRUE, TRUE),
    Pat("pair", T_FU, T_Fu, TRUE, TRUE),
    Pat("pair", T_RF, T_Rf, TRUE, FALSE),
    Pat("pair", T_TS, T_TSc, FALSE, TRUE),
    Pat("pair", T_Q, T_Qc, FALSE, TRUE),
    Pat("pair", T_E, T_Ec, FALSE, TRUE),
    Pat("pair", T_X, T_Xc, FALSE, TRUE),
    Pat("num", <<"<", "W", "G">>, NoStr, FALSE, FALSE),
    Pat("num", <<"<", "W", "H">>, NoStr, FALSE, FALSE),
    Pat("num", <<"<", "W", "T">>, NoStr, FALSE, FALSE),
    Pat("num", <<"<", "R", "X">>, NoStr, FALSE, FALSE),
    Pat("digit", <<"<", "P", "F">>, NoStr, FALSE, FALSE),
    Pat("digit", <<"<", "P", "I">>, NoStr, FALSE, FALSE),
    Pat("any", NoStr, NoStr, FALSE, FALSE)>>

\* text = re.sub(...) for the patterns k..Len(ps) of ps, one after the other.
RECURSIVE ApplyFrom(_, _, _)
ApplyFrom(ps, k, s) ==
  IF k > Len(ps) THEN s ELSE ApplyFrom(ps, k + 1, ReSub(ps[k], s))

\* re.sub(r'\s+', ' ', text).strip()
CollapseSpace(s) == StrStrip(ReSub(Pat("space", NoStr, NoStr, FALSE, FALSE), s))

strip_mysword_tags(text) ==
  IF text = << >> THEN text ELSE CollapseSpace(ApplyFrom(Pipeline, 1, text))

\* clean_text.replace('&', '&amp;').replace('<', '&lt;').replace('>', '&gt;')
EscChar(ch) ==
  CASE ch = "&" -> <<"&", "a", "m", "p", ";">>
    [] ch = "<" -> <<"&", "l", "t", ";">>
    [] ch = ">" -> <<"&", "g", "t", ";">>
    [] OTHER -> <<ch>>

EscapeHtml(s) == Concat([i \in 1..Len(s) |-> EscChar(s[i])])

\* ------------------------------------------------------- the archive
Oebps(name) == <<"O", "E", "B", "P", "S", "/">> \o name
MimetypePath == <<"m", "i", "m", "e", "t", "y", "p", "e">>
ContainerPath ==
  <<"M", "E", "T", "A", "-", "I", "N", "F", "/", "c", "o", "n", "t", "a", "i", "n",
    "e", "r", ".", "x", "m", "l">>

\* The content of an archive member that is not a generated XHTML document.
Opaque == << >>

\* epub.writestr(path, content): a further member of the archive.
WriteStr(fs, path, content) == (path :> content) @@ fs

\* <link rel="stylesheet" href="styles.css"/>
StyleLink == El("link", NoStr, CssFile, "", NoStr)

Title(t) == El("title", NoStr, NoStr, "", t)

\* ------------------------------------------- generate_verse_indicators
\* The glyphs of the pages are written by name: "otimes" for the circled
\* times of the indicators, "back", "up" and "top" for the arrows.
Glyph == <<"otimes">>

\* f'<a href="x.html#x{book_id}-{chapter}-{verse}" class="x">(x)</a>', once per branch
IndicatorBoth(b, c, v) == El("a", NoStr, XrefFile \o Hash \o XrefAnchor(b, c, v), "x", Glyph)

IndicatorFrom(b, c, v) == El("a", NoStr, XrefFile \o Hash \o XrefAnchor(b, c, v), "x", Glyph)

\* An incoming-only indicator told apart by its glyph.
IndicatorTo_OtherGlyph(b, c, v) ==
  El("a", NoStr, XrefFile \o Hash \o XrefAnchor(b, c, v), "x", <<"oplus">>)

IndicatorTo(b, c, v) == El("a", NoStr, XrefFile \o Hash \o XrefAnchor(b, c, v), "x", Glyph)

generate_verse_indicators(b, c, v, xf, xt) ==
  IF ~Truthy(xf) /\ ~Truthy(xt) THEN << >>
  ELSE LET verse_key == <<b, c, v>>
           has_from == Truthy(xf) /\ verse_key \in DOMAIN xf
           has_to == Truthy(xt) /\ verse_key \in DOMAIN xt
       IN  IF has_from /\ has_to THEN <<IndicatorBoth(b, c, v)>>
           ELSE IF has_from THEN <<IndicatorFrom(b, c, v)>>
           ELSE IF has_to THEN <<IndicatorTo(b, c, v)>>
           ELSE << >>

\* ------------------------------------ generate_cross_reference_section
Lit_Book == <<"B", "o", "o", "k", " ">>

\* books.get(book_id, f"Book {book_id}"), then book_title_formatter
XrefBookName(bks, b) ==
  book_title_formatter(IF b \in DOMAIN bks THEN bks[b] ELSE Lit_Book \o Str(b))

\* f'{name} {chapter}:{verse}'
VerseLabel(name, c, v) == name \o <<" ">> \o Str(c) \o <<":">> \o Str(v)

\* f'b{book}c{chap}.html#{verse}'
VerseHref(b, c, v) == ChapterFile(b, c) \o Hash \o Str(v)

\* One <li><a href=...>label</a></li> per coordinate of the list.
XrefList(bks, cs) ==
  <<Tag("ul")>> \o
  Concat([i \in 1..Len(cs) |->
    <<Tag("li"),
      Link(VerseHref(cs[i][1], cs[i][2], cs[i][3]),
           VerseLabel(XrefBookName(bks, cs[i][1]), cs[i][2], cs[i][3]))>>])

XrefSection(bks, xf, xt, k) ==
  <<El("h2", XrefAnchor(k[1], k[2], k[3]), NoStr, "", NoStr),
    Link(VerseHref(k[1], k[2], k[3]), <<"back">>),
    Text(VerseLabel(XrefBookName(bks, k[1]), k[2], k[3])),
    Link(IndexAnchorHref, <<"up">>)>>
  \o (IF Truthy(xf) /\ k \in DOMAIN xf
      THEN <<El("h4", NoStr, NoStr, "", <<"F", "r", "o", "m">>)>> \o XrefList(bks, xf[k])
      ELSE << >>)
  \o (IF Truthy(xt) /\ k \in DOMAIN xt
      THEN <<El("h3", NoStr, NoStr, "", <<"T", "o">>)>> \o XrefList(bks, xt[k])
      ELSE << >>)

\* The keys of either index, in descending order.
RECURSIVE SortedCoordsDesc(_)
SortedCoordsDesc(S) ==
  IF S = {} THEN << >> ELSE SortedCoordsDesc(S \ {MinCoord(S)}) \o <<MinCoord(S)>>

sorted_verses_Descending(xf, xt) == SortedCoordsDesc(DOMAIN xf \cup DOMAIN xt)

\* The keys of either index, sorted.
sorted_verses(xf, xt) == SortedCoords(DOMAIN xf \cup DOMAIN xt)

XrefPage(bks, xf, xt, sv) ==
  <<Title(<<"X">>), StyleLink, El("h1", <<"c">>, NoStr, "", <<"X">>)>>
  \o Concat([i \in 1..Len(sv) |-> XrefSection(bks, xf, xt, sv[i])])

\* Returns None (here the empty document, as falsy) without cross-references.
generate_cross_reference_section(bks, xf, xt) ==
  IF ~Truthy(xf) /\ ~Truthy(xt) THEN << >>
  ELSE IF DOMAIN xf \cup DOMAIN xt = {} THEN << >>
  ELSE XrefPage(bks, xf, xt, sorted_verses(xf, xt))

\* ---------------------------------------------------------- create_epub
NCols == 4

\* books.get(bid): None and '' are both falsy, and only that is looked at.
BooksGet(bks, b) == IF b \in DOMAIN bks THEN bks[b] ELSE NoStr

\* ... if bid in books: a book with an empty name is listed too.
InIndex_AnyEntry(bks, b) == b \in DOMAIN bks

\* ... for bid in sorted(verses.keys()) if books.get(bid)
InIndex(bks, b) == BooksGet(bks, b) # NoStr

\* The check left out: no book is ever skipped.
Skipped_Never(bks, b) == FALSE

\* book_name = books.get(book_id); if not book_name: continue
Skipped(bks, b) == BooksGet(bks, b) = NoStr

\* sorted(verses[bid].keys())[0]
FirstChapter(vs, b) == SortedKeys(vs[b])[1]

\* book_list: (bid, first chapter, name) of the books with verses and a name
BookEntries(bks, vs, keep) ==
  [i \in 1..Len(keep) |-> <<keep[i], FirstChapter(vs, keep[i]), bks[keep[i]]>>]

book_list(bks, vs) ==
  BookEntries(bks, vs, SelectSeq(SortedKeys(vs), LAMBDA b : InIndex(bks, b)))

\* f'<td><a href="b{bid}c{first}.html">{book_title_formatter(name)}</a></td>'
IndexCell(e) == <<Tag("td"), Link(ChapterFile(e[1], e[2]), book_title_formatter(e[3]))>>

\* One table row: the cells of book_list[i:i+4], padded to four cells.
RowCells(row) ==
  <<Tag("tr")>>
  \o Concat([k \in 1..Len(row) |-> IndexCell(row[k])])
  \o [k \in 1..(NCols - Len(row)) |-> Tag("td")]

IndexRow(bl, i) ==
  RowCells(SubSeq(bl, i, IF i + NCols - 1 < Len(bl) THEN i + NCols - 1 ELSE Len(bl)))

index_page(bl) ==
  <<Title(<<"B", "o", "o", "k", "s">>), StyleLink,
    El("a", <<"b">>, NoStr, "", NoStr), El("table", NoStr, NoStr, "b", NoStr)>>
  \o Concat([r \in 1..((Len(bl) + NCols - 1) \div NCols) |->
               IndexRow(bl, (r - 1) * NCols + 1)])

\* An <item id=... href=.../> of the manifest.
Item(id, href) == [id |-> id, href |-> href]

\* A piece of toc.ncx: an opened navPoint, a navPoint closed at once, or a
\* closing </navPoint>.
Nav(kind, id, po, label, src) ==
  [kind |-> kind, id |-> id, playOrder |-> po, label |-> label, src |-> src]

NavClose == Nav("close", NoStr, 0, NoStr, NoStr)

\* The navPoint of a book.
BookNavPoint(b, name, first, po) == Nav("open", Str(b), po, name, ChapterFile(b, first))

\* The navPoint of a chapter.
ChapterNavPoint(b, name, chap, po) ==
  Nav("open", ItemId(b, chap), po, name \o <<" ">> \o Str(chap), ChapterFile(b, chap))

\* The verses of a chapter with play_order never advanced between them.
VerseNavPoints_NoIncrement(b, name, chap, vl, po) ==
  [i \in 1..Len(vl) |->
     Nav("leaf", VerseNavId(b, chap, vl[i][1]), po,
         VerseLabel(name, chap, vl[i][1]), VerseHref(b, chap, vl[i][1]))]

\* The navPoints of the verses of a chapter, numbered from po on.
VerseNavPoints(b, name, chap, vl, po) ==
  [i \in 1..Len(vl) |->
     Nav("leaf", VerseNavId(b, chap, vl[i][1]), po + i - 1,
         VerseLabel(name, chap, vl[i][1]), VerseHref(b, chap, vl[i][1]))]

\* toc_links: the strip of links to the chapters of the book
toc_links(b, chapters) ==
  [i \in 1..Len(chapters) |-> Link(ChapterFile(b, chapters[i]), Str(chapters[i]))]

\* f'{book_name} {chap}'
ChapterLabel(name, chap) == name \o <<" ">> \o Str(chap)

\* The heading of a chapter page: the one of the first chapter holds the
\* book's anchor and the chapter strip, the others link back to it.
heading(b, name, chapters, first, chap) ==
  IF chap = first
  THEN <<Title(ChapterLabel(name, chap)), StyleLink, El("h1", TocId, NoStr, "", name),
         El("div", NoStr, NoStr, "c", NoStr)>>
       \o toc_links(b, chapters)
       \o <<El("h2", NoStr, NoStr, "", ChapterLabel(name, chap)),
            Link(IndexAnchorHref, <<"up">>), Link(Hash \o TocId, <<"top">>)>>
  ELSE <<Title(ChapterLabel(name, chap)), StyleLink,
         El("h2", NoStr, NoStr, "", ChapterLabel(name, chap)),
         Link(IndexAnchorHref, <<"up">>),
         Link(ChapterFile(b, first) \o Hash \o TocId, <<"top">>)>>

\* text if text is not None else ""
safe_text(text) == IF text = NullText THEN NoStr ELSE text[1]

\* f'<a href="#{vnum}" id="{vnum}">{vnum}</a> {escaped_verse} {indicators}<br/>'
VerseLine(b, chap, ve, xf, xt) ==
  <<El("a", Str(ve[1]), Hash \o Str(ve[1]), "", Str(ve[1])),
    Text(EscapeHtml(strip_mysword_tags(safe_text(ve[2]))))>>
  \o generate_verse_indicators(b, chap, ve[1], xf, xt)
  \o <<Tag("br")>>

chapter_page(b, name, chapters, first, chap, vl, xf, xt) ==
  heading(b, name, chapters, first, chap)
  \o Concat([i \in 1..Len(vl) |-> VerseLine(b, chap, vl[i], xf, xt)])

\* What the loops carry: the accumulated lists, the counter and the archive.
Acc(m, sp, toc, po, fs) ==
  [manifest |-> m, spine |-> sp, toc |-> toc, po |-> po, files |-> fs]

\* One pass of "for chap in chapters".
ChapterStep(a, b, name, chapters, first, chap, vl, xf, xt) ==
  Acc(Append(a.manifest, Item(ItemId(b, chap), ChapterFile(b, chap))),
      Append(a.spine, ItemId(b, chap)),
      a.toc \o <<ChapterNavPoint(b, name, chap, a.po)>>
            \o VerseNavPoints(b, name, chap, vl, a.po + 1)
            \o <<NavClose>>,
      a.po + 1 + Len(vl),
      WriteStr(a.files, Oebps(ChapterFile(b, chap)),
               chapter_page(b, name, chapters, first, chap, vl, xf, xt)))

RECURSIVE ChapterLoop(_, _, _, _, _, _, _, _)
ChapterLoop(a, b, name, chapters, k, vs, xf, xt) ==
  IF k > Len(chapters) THEN a
  ELSE ChapterLoop(
         ChapterStep(a, b, name, chapters, chapters[1], chapters[k],
                     vs[b][chapters[k]], xf, xt),
         b, name, chapters, k + 1, vs, xf, xt)

\* The navPoint of the book is opened before its chapters ...
OpenBook(a, b, name, first) ==
  Acc(a.manifest, a.spine, Append(a.toc, BookNavPoint(b, name, first, a.po)),
      a.po + 1, a.files)

\* The closing </navPoint> of the book left out.
CloseBook_Unclosed(a) == a

\* ... and closed after them.
CloseBook(a) == Acc(a.manifest, a.spine, Append(a.toc, NavClose), a.po, a.files)

BookBody(a, b, name, chapters, vs, xf, xt) ==
  CloseBook(ChapterLoop(OpenBook(a, b, name, chapters[1]), b, name, chapters, 1,
                        vs, xf, xt))

\* One pass of "for book_id in sorted(verses.keys())" for a book that is not
\* skipped; book_name is what books.get(book_id) returned.
BookStep(a, book_name, vs, xf, xt, b) ==
  BookBody(a, b, book_title_formatter(book_name), SortedKeys(vs[b]), vs, xf, xt)

\* The two items content.opf always holds.
FixedItems == <<Item(<<"n", "c", "x">>, NcxFile), Item(<<"c", "s", "s">>, CssFile)>>

IndexItemId == <<"i", "n", "d", "e", "x">>
XrefItemId == <<"x", "r", "e", "f", "s">>

XrefNavPoint(po) ==
  Nav("leaf", <<"x">>, po,
      <<"C", "r", "o", "s", "s", " ", "R", "e", "f", "e", "r", "e", "n", "c", "e", "s">>,
      XrefFile \o Hash \o <<"c">>)

\* The state before the loop over the books: the fixed members, the index
\* page, the index item and itemref, play_order = 1.
StartAcc(bks, vs) ==
  Acc(<<Item(IndexItemId, IndexFile)>>, <<IndexItemId>>, << >>, 1,
      WriteStr(WriteStr(WriteStr(WriteStr(EmptyMap,
        MimetypePath, Opaque), ContainerPath, Opaque),
        Oebps(CssFile), Opaque),
        Oebps(IndexFile), index_page(book_list(bks, vs))))

\* for book_id in sorted(verses.keys()): from the k-th key on.
RECURSIVE BookLoop(_, _, _, _, _, _, _)
BookLoop(a, keys, k, bks, vs, xf, xt) ==
  IF k > Len(keys) THEN a
  ELSE BookLoop(IF Skipped(bks, keys[k]) THEN a
                ELSE BookStep(a, BooksGet(bks, keys[k]), vs, xf, xt, keys[k]),
                keys, k + 1, bks, vs, xf, xt)

\* if xref_content: the page, its item, its itemref and its navPoint.
AddXrefs(a, xref_content) ==
  IF xref_content = << >> THEN a
  ELSE Acc(Append(a.manifest, Item(XrefItemId, XrefFile)),
           Append(a.spine, XrefItemId),
           Append(a.toc, XrefNavPoint(a.po)),
           a.po,
           WriteStr(a.files, Oebps(XrefFile), xref_content))

\* The last two members of the archive.
ClosePackage(a) ==
  Acc(a.manifest, a.spine, a.toc, a.po,
      WriteStr(WriteStr(a.files, Oebps(OpfFile), Opaque), Oebps(NcxFile), Opaque))

\* create_epub as a function of its arguments: what a run that completes
\* has accumulated and written.
Assemble(bks, vs, xf, xt) ==
  ClosePackage(AddXrefs(BookLoop(StartAcc(bks, vs), SortedKeys(vs), 1, bks, vs, xf, xt),
                        generate_cross_reference_section(bks, xf, xt)))

\* ------------------------------------------------------------ the state
VARIABLES
  books,          \* book id -> name (fetch_books)
  verses,         \* book id -> chapter -> list of (verse, text) (fetch_verses)
  xrefs_from,     \* (book, chapter, verse) -> list of targets
  xrefs_to,       \* (book, chapter, verse) -> list of sources
  pc,             \* where create_epub (or the stripper) stands
  files,          \* the archive: path -> document
  manifest_items, spine_items, toc_nav, play_order,
  bi,             \* the position of "for book_id in sorted(verses.keys())"
  content_opf,    \* what content.opf was written with
  toc_ncx,        \* what toc.ncx was written with
  text_in, text_once, text_twice   \* a text, stripped once, stripped twice

vars ==
  <<books, verses, xrefs_from, xrefs_to, pc, files, manifest_items, spine_items,
    toc_nav, play_order, bi, content_opf, toc_ncx, text_in, text_once, text_twice>>

inputs == <<books, verses, xrefs_from, xrefs_to>>
texts == <<text_in, text_once, text_twice>>

NoOpf == [manifest |-> << >>, spine |-> << >>]

\* The call create_epub(books, verses, output, title, xrefs_from, xrefs_to) of
\* main(), on what the three fetch_ functions return.
InitWith(bible, table, x) ==
  /\ books = fetch_books(table)
  /\ verses = fetch_verses(BibleRows(bible))
  /\ xrefs_from = fetch_xrefs_from(x)
  /\ xrefs_to = fetch_xrefs_to(x)
  /\ pc = "create"
  /\ files = EmptyMap
  /\ manifest_items = << >>
  /\ spine_items = << >>
  /\ toc_nav = << >>
  /\ play_order = 0
  /\ bi = 0
  /\ content_opf = NoOpf
  /\ toc_ncx = << >>
  /\ text_in = << >> /\ text_once = << >> /\ text_twice = << >>

NoXrefDb == [db |-> FALSE, rows |-> << >>]

\* A cross-reference database is absent, or holds one row.
FewXrefs == {NoXrefDb, [db |-> TRUE, rows |-> << << <<1, 2, 1>>, <<1, 2, 1>> >> >>]}

Init ==
  \E bible \in CoordSets(Coords, MaxRows), table \in BookTables, x \in FewXrefs :
    InitWith(bible, table, x)

\* zipfile.ZipFile(output_path, 'w') raises (the path cannot be written): the
\* except branch logs and exits with status 1.
OpenFails ==
  /\ pc = "create"
  /\ pc' = "failed"
  /\ UNCHANGED <<inputs, files, manifest_items, spine_items, toc_nav, play_order,
                 bi, content_opf, toc_ncx, texts>>

\* The fixed members, the index page, and the initial lists.
WriteIndex ==
  /\ pc = "create"
  /\ files' = WriteStr(WriteStr(WriteStr(WriteStr(files,
                MimetypePath, Opaque), ContainerPath, Opaque),
                Oebps(CssFile), Opaque),
                Oebps(IndexFile), index_page(book_list(books, verses)))
  /\ manifest_items' = <<Item(IndexItemId, IndexFile)>>
  /\ spine_items' = <<IndexItemId>>
  /\ toc_nav' = << >>
  /\ play_order' = 1
  /\ bi' = 1
  /\ pc' = "books"
  /\ UNCHANGED <<inputs, content_opf, toc_ncx, texts>>

\* A book without a name: continue.
SkipBook ==
  /\ pc = "books"
  /\ bi <= Len(SortedKeys(verses))
  /\ Skipped(books, SortedKeys(verses)[bi])
  /\ bi' = bi + 1
  /\ UNCHANGED <<inputs, pc, files, manifest_items, spine_items, toc_nav,
                 play_order, content_opf, toc_ncx, texts>>

\* A book with a name: its navPoint, and each chapter's item, itemref,
\* navPoints and page.
EmitBook ==
  /\ pc = "books"
  /\ bi <= Len(SortedKeys(verses))
  /\ ~Skipped(books, SortedKeys(verses)[bi])
  /\ \E a \in {BookStep(Acc(manifest_items, spine_items, toc_nav, play_order, files),
                        BooksGet(books, SortedKeys(verses)[bi]),
                        verses, xrefs_from, xrefs_to, SortedKeys(verses)[bi])} :
         /\ manifest_items' = a.manifest
         /\ spine_items' = a.spine
         /\ toc_nav' = a.toc
         /\ play_order' = a.po
         /\ files' = a.files
  /\ bi' = bi + 1
  /\ UNCHANGED <<inputs, pc, content_opf, toc_ncx, texts>>

\* After the books: the cross-reference page, when there is one.
CrossReferences ==
  /\ pc = "books"
  /\ bi > Len(SortedKeys(verses))
  /\ \E xref_content \in {generate_cross_reference_section(books, xrefs_from, xrefs_to)} :
         \/ /\ xref_content # << >>
            /\ files' = WriteStr(files, Oebps(XrefFile), xref_content)
            /\ manifest_items' = Append(manifest_items, Item(XrefItemId, XrefFile))
            /\ spine_items' = Append(spine_items, XrefItemId)
            /\ toc_nav' = Append(toc_nav, XrefNavPoint(play_order))
         \/ /\ xref_content = << >>
            /\ UNCHANGED <<files, manifest_items, spine_items, toc_nav>>
  /\ pc' = "write"
  /\ UNCHANGED <<inputs, play_order, bi, content_opf, toc_ncx, texts>>

\* content.opf and toc.ncx; the archive is closed and success is logged.
WritePackage ==
  /\ pc = "write"
  /\ content_opf' = [manifest |-> FixedItems \o manifest_items, spine |-> spine_items]
  /\ toc_ncx' = toc_nav
  /\ files' = WriteStr(WriteStr(files, Oebps(OpfFile), Opaque), Oebps(NcxFile), Opaque)
  /\ pc' = "done"
  /\ UNCHANGED <<inputs, manifest_items, spine_items, toc_nav, play_order, bi, texts>>

Next == OpenFails \/ WriteIndex \/ SkipBook \/ EmitBook \/ CrossReferences \/ WritePackage

Spec == Init /\ [][Next]_vars

\* ------------------------------- runs with cross-reference databases
\* The coordinates the cross-reference rows start from: two verses of book 1, a verse
\* of the last book, and a chapter, a book and a verse the Bible table lacks.
XCoords ==
  {<<1, 2, 1>>, <<1, 10, 2>>, <<MaxBook, 2, 1>>, <<1, 3, 1>>, <<MaxBook + 1, 2, 1>>,
   <<1, 2, 3>>}

\* The coordinates the rows of xrefs_bcv point to: a verse of the first book,
\* one of the last, a verse and a book the Bible table does not have.
XTargets == {<<1, 2, 1>>, <<MaxBook, 2, 1>>, <<1, 2, 3>>, <<MaxBook + 1, 2, 1>>}

XrefDbs ==
  {NoXrefDb} \cup {[db |-> TRUE, rows |-> r] : r \in XrefRowSeqs(XCoords \X XTargets, MaxXrefs)}

\* The biblebooks tables that name every book but, possibly, the last.
XTables == {t \in BookTables : \A b \in BookIds \ {MaxBook} : b \in DOMAIN t /\ t[b] = 1}

\* Every verse of every book is in the Bible table.
InitX == \E table \in XTables, x \in XrefDbs : InitWith(Coords, table, x)

SpecX == InitX /\ [][Next]_vars

\* ------------------------------------- runs of strip_mysword_tags alone
Tokens ==
  {<<"<">>, <<">">>, <<" ">>, <<"\n">>, <<"a">>, <<"1">>, T_CM, T_FI, T_Fi, T_RF,
   T_Q, T_Qc, <<"<", "W", "G">>, <<"<", "P", "F">>}

\* The texts made of at most k tokens.
RECURSIVE TokenTexts(_)
TokenTexts(k) ==
  IF k = 0 THEN {<< >>}
  ELSE TokenTexts(k - 1) \cup {t \o tok : t \in TokenTexts(k - 1), tok \in Tokens}

InitStrip ==
  /\ text_in \in TokenTexts(MaxTok)
  /\ text_once = << >> /\ text_twice = << >>
  /\ pc = "strip"
  /\ books = EmptyMap /\ verses = EmptyMap
  /\ xrefs_from = EmptyMap /\ xrefs_to = EmptyMap
  /\ files = EmptyMap
  /\ manifest_items = << >> /\ spine_items = << >> /\ toc_nav = << >>
  /\ play_order = 0 /\ bi = 0
  /\ content_opf = NoOpf /\ toc_ncx = << >>

assembly == <<inputs, files, manifest_items, spine_items, toc_nav, play_order, bi,
              content_opf, toc_ncx>>

\* clean_text = strip_mysword_tags(safe_text)
StripOnce ==
  /\ pc = "strip"
  /\ text_once' = strip_mysword_tags(text_in)
  /\ pc' = "stripped"
  /\ UNCHANGED <<assembly, text_in, text_twice>>

\* The stripper applied to its own result.
StripAgain ==
  /\ pc = "stripped"
  /\ text_twice' = strip_mysword_tags(text_once)
  /\ pc' = "restripped"
  /\ UNCHANGED <<assembly, text_in, text_once>>

NextStrip == StripOnce \/ StripAgain

SpecStrip == InitStrip /\ [][NextStrip]_vars

\* ============================================================== claims
\* What the claims speak of.
NavPoints(toc) == SelectSeq(toc, LAMBDA n : n.kind # "close")

\* The book has a (non-empty) name in the book mapping.
KnownName(b) == b \in DOMAIN books /\ books[b] # NoStr

\* The books with at least one verse and a name.
NamedBooks == {b \in DOMAIN verses : KnownName(b)}

\* The (book, chapter) pairs of the named books, and their ascending order.
ChapterPairs == UNION {{<<b, c>> : c \in DOMAIN verses[b]} : b \in NamedBooks}

PairLess(p, q) == p[1] < q[1] \/ (p[1] = q[1] /\ p[2] < q[2])

PairRank(p) == 1 + Cardinality({q \in ChapterPairs : PairLess(q, p)})

XrefWritten == Oebps(XrefFile) \in DOMAIN files

\* C1: when create_epub completes, the playOrder values of the navPoints of
\* toc.ncx, read in document order, are exactly 1, 2, ..., N.
C1_PlayOrderIsOneToN ==
  pc = "done" =>
    \A i \in 1..Len(NavPoints(toc_ncx)) : NavPoints(toc_ncx)[i].playOrder = i

\* A completed run with two books, a chapter of two verses and the
\* cross-reference node, numbered last.
C1_Witness ==
  /\ pc = "done"
  /\ Len(NavPoints(toc_ncx)) >= 8
  /\ Cardinality(NamedBooks) >= 2
  /\ toc_ncx[Len(toc_ncx)].id = <<"x">>
  /\ \E b \in NamedBooks : \E c \in DOMAIN verses[b] : Len(verses[b][c]) >= 2

\* The manifest items whose href names the file f, and whose id is id.
ItemsFor(f) == {i \in 1..Len(content_opf.manifest) : content_opf.manifest[i].href = f}

ItemsWithId(id) == {i \in 1..Len(content_opf.manifest) : content_opf.manifest[i].id = id}

\* The spine entry at position k refers to the one manifest item of file f.
SpineEntryIs(k, f) ==
  /\ Cardinality(ItemsFor(f)) = 1
  /\ \A i \in ItemsFor(f) : content_opf.spine[k] = content_opf.manifest[i].id

\* The members of the archive that are not chapter pages, and those that are.
OtherPaths ==
  {MimetypePath, ContainerPath, Oebps(CssFile), Oebps(IndexFile), Oebps(XrefFile),
   Oebps(OpfFile), Oebps(NcxFile)}

ChapterPagesWritten == DOMAIN files \ OtherPaths

\* C2: when create_epub completes, the spine is the index, then the chapters
\* of the named books in ascending (book, chapter) order, then the
\* cross-reference entry iff its page was written; manifest ids are unique,
\* every idref is the id of exactly one item, and every chapter page written
\* has exactly one manifest item and exactly one spine entry.
C2_SpineAndManifest ==
  pc = "done" =>
    /\ Len(content_opf.spine) =
         1 + Cardinality(ChapterPairs) + (IF XrefWritten THEN 1 ELSE 0)
    /\ SpineEntryIs(1, IndexFile)
    /\ \A p \in ChapterPairs : SpineEntryIs(1 + PairRank(p), ChapterFile(p[1], p[2]))
    /\ XrefWritten => SpineEntryIs(Len(content_opf.spine), XrefFile)
    /\ ~XrefWritten => ItemsFor(XrefFile) = {}
    /\ \A i \in 1..Len(content_opf.manifest) :
         ItemsWithId(content_opf.manifest[i].id) = {i}
    /\ \A k \in 1..Len(content_opf.spine) :
         Cardinality(ItemsWithId(content_opf.spine[k])) = 1
    /\ \A path \in ChapterPagesWritten :
         /\ Cardinality({i \in 1..Len(content_opf.manifest) :
                           Oebps(content_opf.manifest[i].href) = path}) = 1
         /\ \A i \in 1..Len(content_opf.manifest) :
              Oebps(content_opf.manifest[i].href) = path =>
                Cardinality({k \in 1..Len(content_opf.spine) :
                               content_opf.spine[k] = content_opf.manifest[i].id}) = 1

\* A completed run with two named books, one of them with two chapters, and
\* the cross-reference page.
C2_Witness ==
  /\ pc = "done"
  /\ XrefWritten
  /\ Cardinality(NamedBooks) >= 2
  /\ Cardinality(ChapterPairs) >= 3
  /\ Cardinality(ChapterPagesWritten) >= 3

\* The hrefs of the links of a document, in document order.
LinksOf(doc) == SelectSeq(doc, LAMBDA e : e.href # NoStr /\ e.tag = "a")

\* The file an href names (what stands before its '#').
HrefFile(h) ==
  IF \E i \in 1..Len(h) : h[i] = "#"
  THEN SubSeq(h, 1, Min({i \in 1..Len(h) : h[i] = "#"}) - 1)
  ELSE h

\* The fragment of an href (what stands after its '#'), if any.
HrefFrag(h) ==
  IF \E i \in 1..Len(h) : h[i] = "#"
  THEN SubSeq(h, Min({i \in 1..Len(h) : h[i] = "#"}) + 1, Len(h))
  ELSE NoStr

\* 'b{b}c': how the name of every page of book b starts.
PagePrefix(b) == <<"b">> \o Str(b) \o <<"c">>

StartsWith(s, p) == Len(p) <= Len(s) /\ SubSeq(s, 1, Len(p)) = p

\* The books with verse data and no entry in the book mapping.
UnmappedBooks == DOMAIN verses \ DOMAIN books

\* The verse mapping without the data of book b.
Without(vs, b) == [k \in DOMAIN vs \ {b} |-> vs[k]]

\* A page of book b: a file of the archive, a manifest item or a navPoint
\* target whose name starts with b{b}c.
PageOfBook(name, b) == StartsWith(name, PagePrefix(b))

\* C4: a book with verse data and no entry in the book mapping gets no index
\* cell, no chapter page, no manifest item, no spine entry and no navPoint;
\* the run completes all the same, and everything it produced is what it
\* produces without that book's verse data.
C4_UnmappedBookOmitted ==
  pc = "done" =>
    \A b \in UnmappedBooks :
      /\ \A i \in 1..Len(LinksOf(files[Oebps(IndexFile)])) :
           ~PageOfBook(LinksOf(files[Oebps(IndexFile)])[i].href, b)
      /\ \A path \in DOMAIN files : \A c \in DOMAIN verses[b] :
           path # Oebps(ChapterFile(b, c))
      /\ \A i \in 1..Len(content_opf.manifest) :
           ~PageOfBook(content_opf.manifest[i].href, b)
      /\ \A k \in 1..Len(content_opf.spine) :
           /\ ~StartsWith(content_opf.spine[k], Str(b) \o <<"-">>)
           /\ \A i \in ItemsWithId(content_opf.spine[k]) :
                ~PageOfBook(content_opf.manifest[i].href, b)
      /\ \A i \in 1..Len(toc_ncx) :
           /\ ~PageOfBook(toc_ncx[i].src, b)
           /\ toc_ncx[i].id # Str(b)
           /\ ~StartsWith(toc_ncx[i].id, Str(b) \o <<"-">>)
      /\ Acc(manifest_items, spine_items, toc_nav, play_order, files)
           = Assemble(books, Without(verses, b), xrefs_from, xrefs_to)

\* A completed run in which an unmapped book with verses precedes a named
\* book with verses.
C4_Witness ==
  /\ pc = "done"
  /\ \E b \in UnmappedBooks : \E n \in NamedBooks : b < n
  /\ Len(NavPoints(toc_ncx)) >= 3

\* The links of the index page, and the navPoints of the books (those opened
\* at the top level of the navMap).
IndexTargets ==
  [i \in 1..Len(LinksOf(files[Oebps(IndexFile)])) |->
     LinksOf(files[Oebps(IndexFile)])[i].href]

DepthAt(toc, i) ==
  Cardinality({j \in 1..(i - 1) : toc[j].kind = "open"})
  - Cardinality({j \in 1..(i - 1) : toc[j].kind = "close"})

\* The positions lo..hi of toc that hold a navPoint at depth d, in order.
NodesAt(toc, d, lo, hi) ==
  SelectSeq([k \in 1..(IF hi >= lo THEN hi - lo + 1 ELSE 0) |-> lo + k - 1],
            LAMBDA i : toc[i].kind # "close" /\ DepthAt(toc, i) = d)

BookNodeTargets ==
  [k \in 1..Len(SelectSeq(NodesAt(toc_ncx, 0, 1, Len(toc_ncx)),
                          LAMBDA i : toc_ncx[i].kind = "open")) |->
     toc_ncx[SelectSeq(NodesAt(toc_ncx, 0, 1, Len(toc_ncx)),
                       LAMBDA i : toc_ncx[i].kind = "open")[k]].src]

BookRank(b) == 1 + Cardinality({n \in NamedBooks : n < b})

LeastChapter(b) == CHOOSE c \in DOMAIN verses[b] : \A d \in DOMAIN verses[b] : c <= d

\* C6: the books with a cell in the index page are the books with a book
\* navPoint, and are the books with a verse and a name; each once, in
\* ascending order of id, both pointing at the page of the book's least
\* chapter.
C6_IndexAndNavBooks ==
  pc = "done" =>
    /\ Len(IndexTargets) = Cardinality(NamedBooks)
    /\ Len(BookNodeTargets) = Cardinality(NamedBooks)
    /\ \A b \in NamedBooks :
         /\ IndexTargets[BookRank(b)] = ChapterFile(b, LeastChapter(b))
         /\ BookNodeTargets[BookRank(b)] = ChapterFile(b, LeastChapter(b))

\* A completed run with two named books, an unnamed one apart, where a book
\* starts at a chapter other than the least chapter number of the table.
C6_Witness ==
  /\ pc = "done"
  /\ Cardinality(NamedBooks) >= 2
  /\ \E b \in NamedBooks : LeastChapter(b) = 10
  /\ \E b \in NamedBooks : Cardinality(DOMAIN verses[b]) >= 2

\* C7: the run ends in failure, and not in a created package, when the book
\* mapping or the verse mapping is empty.
C7_FailsWithoutData ==
  pc = "done" => (Truthy(books) /\ Truthy(verses))

\* The closing </navPoint> of the navPoint opened at position i.
CloseOf(toc, i) ==
  Min({j \in (i + 1)..Len(toc) :
         toc[j].kind = "close" /\ DepthAt(toc, j) = DepthAt(toc, i) + 1})

\* The navPoints directly inside the navPoint opened at position i.
ChildrenOf(toc, i) == NodesAt(toc, DepthAt(toc, i) + 1, i + 1, CloseOf(toc, i))

BookNodes(toc) ==
  SelectSeq(NodesAt(toc, 0, 1, Len(toc)), LAMBDA i : toc[i].kind = "open")

ChapterRank(b, c) == 1 + Cardinality({d \in DOMAIN verses[b] : d < c})

\* The chapter navPoint at position n is that of chapter c of book b, and
\* holds one leaf per verse of the chapter, in the order of the source.
ChapterNodeOk(toc, n, b, c) ==
  /\ toc[n].kind = "open"
  /\ toc[n].src = ChapterFile(b, c)
  /\ Len(ChildrenOf(toc, n)) = Len(verses[b][c])
  /\ \A i \in 1..Len(verses[b][c]) :
       /\ toc[ChildrenOf(toc, n)[i]].kind = "leaf"
       /\ toc[ChildrenOf(toc, n)[i]].src
            = ChapterFile(b, c) \o <<"#">> \o Str(verses[b][c][i][1])

\* The book navPoint at position r is that of book b, and holds one navPoint
\* per chapter of the book, in ascending order.
BookNodeOk(toc, r, b) ==
  /\ Len(ChildrenOf(toc, r)) = Cardinality(DOMAIN verses[b])
  /\ \A c \in DOMAIN verses[b] :
       ChapterNodeOk(toc, ChildrenOf(toc, r)[ChapterRank(b, c)], b, c)

\* C10: the entries of toc.ncx are a well-nested tree of depth three: every
\* navPoint opened is closed; the root holds one node per named book, a book
\* node one node per chapter in ascending order, a chapter node one leaf per
\* verse in source order; leaves hold nothing; the cross-reference node, if
\* any, is the last child of the root; a chapter node targets its page and a
\* verse leaf that page and the fragment #{verse}.
C10_NavTree ==
  pc = "done" =>
    /\ \A i \in 1..Len(toc_ncx) :
         /\ toc_ncx[i].kind = "close" => DepthAt(toc_ncx, i) >= 1
         /\ toc_ncx[i].kind = "open" => DepthAt(toc_ncx, i) <= 1
         /\ toc_ncx[i].kind = "leaf" =>
              \/ DepthAt(toc_ncx, i) = 2
              \/ /\ DepthAt(toc_ncx, i) = 0
                 /\ i = Len(toc_ncx)
                 /\ XrefWritten
                 /\ toc_ncx[i].src = XrefFile \o <<"#", "c">>
    /\ DepthAt(toc_ncx, Len(toc_ncx) + 1) = 0
    /\ XrefWritten =>
         (toc_ncx # << >> /\ toc_ncx[Len(toc_ncx)].kind = "leaf"
            /\ DepthAt(toc_ncx, Len(toc_ncx)) = 0)
    /\ Len(BookNodes(toc_ncx)) = Cardinality(NamedBooks)
    /\ \A b \in NamedBooks : BookNodeOk(toc_ncx, BookNodes(toc_ncx)[BookRank(b)], b)

\* A completed run with a book of two chapters, one of them of two verses,
\* and the cross-reference node.
C10_Witness ==
  /\ pc = "done"
  /\ XrefWritten
  /\ \E b \in NamedBooks :
       /\ Cardinality(DOMAIN verses[b]) >= 2
       /\ \E c \in DOMAIN verses[b] : Len(verses[b][c]) >= 2

\* The ids a document defines.
IdsOf(doc) == {doc[i].id : i \in 1..Len(doc)} \ {NoStr}

\* The member of the archive an href found in the member at path points to.
TargetPath(path, h) == IF HrefFile(h) = NoStr THEN path ELSE Oebps(HrefFile(h))

\* The href, found in the member at path, names a member that was written
\* and, when it has a fragment, an id of that member.
Resolves(path, h) ==
  /\ TargetPath(path, h) \in DOMAIN files
  /\ HrefFrag(h) # NoStr => HrefFrag(h) \in IdsOf(files[TargetPath(path, h)])

\* C3: when create_epub completes, every hyperlink of every generated
\* document names a file that was written to the package and, when it has a
\* fragment, an id that exists in that file.
C3_EveryLinkResolves ==
  pc = "done" =>
    \A path \in DOMAIN files : \A i \in 1..Len(LinksOf(files[path])) :
      Resolves(path, LinksOf(files[path])[i].href)

\* An element that mentions book b: a link to one of its pages or to its
\* cross-reference anchors, such an anchor, or a label of the book.
MentionsBook(e, b) ==
  \/ PageOfBook(e.href, b)
  \/ StartsWith(e.id, <<"x">> \o Str(b) \o <<"-">>)
  \/ StartsWith(e.text, Lit_Book \o Str(b) \o <<" ">>)

\* C5: when create_epub completes, no generated document mentions a book
\* that has verses and no entry in the book mapping, and none holds a link to
\* a page b{book}c*.html of it.
C5_UnmappedBookNeverMentioned ==
  pc = "done" =>
    \A b \in UnmappedBooks : \A path \in DOMAIN files :
      \A i \in 1..Len(files[path]) : ~MentionsBook(files[path][i], b)

\* The verse coordinate is a key of the outgoing or of the incoming index.
HasXref(k) == k \in DOMAIN xrefs_from \/ k \in DOMAIN xrefs_to

\* The links of a document to the cross-reference page.
IndicatorsOf(doc) ==
  SelectSeq(doc, LAMBDA e : e.tag = "a" /\ e.href # NoStr /\ HrefFile(e.href) = XrefFile)

\* Those of them that point at the anchor of the verse (b, c, v).
IndicatorsFor(doc, b, c, v) ==
  SelectSeq(IndicatorsOf(doc),
            LAMBDA e : HrefFrag(e.href) = XrefAnchor(b, c, v))

\* <a href="x.html#x{b}-{c}-{v}" class="x">&otimes;</a>
TheIndicator(b, c, v) ==
  [tag |-> "a", id |-> NoStr,
   href |-> <<"x", ".", "h", "t", "m", "l", "#", "x">>
              \o Str(b) \o <<"-">> \o Str(c) \o <<"-">> \o Str(v),
   class |-> "x", text |-> <<"otimes">>]

\* The verses of chapter c of book b that have a cross-reference.
VersesWithXref(b, c) ==
  {i \in 1..Len(verses[b][c]) : HasXref(<<b, c, verses[b][c][i][1]>>)}

\* C8: in every chapter page, a verse has an indicator link iff its
\* coordinate is a key of the outgoing or of the incoming index; the link is
\* one and the same (glyph, class, target x.html#x{b}-{c}-{v}) whether the
\* verse has outgoing references, incoming ones or both; the page holds no
\* other link to the cross-reference page, and none when both indices are
\* empty.
C8_IndicatorIffCrossReferenced ==
  pc = "done" =>
    \A p \in ChapterPairs :
      /\ Oebps(ChapterFile(p[1], p[2])) \in DOMAIN files
      /\ \A i \in 1..Len(verses[p[1]][p[2]]) :
           IndicatorsFor(files[Oebps(ChapterFile(p[1], p[2]))],
                         p[1], p[2], verses[p[1]][p[2]][i][1])
             = IF i \in VersesWithXref(p[1], p[2])
               THEN <<TheIndicator(p[1], p[2], verses[p[1]][p[2]][i][1])>>
               ELSE << >>
      /\ Len(IndicatorsOf(files[Oebps(ChapterFile(p[1], p[2]))]))
           = Cardinality(VersesWithXref(p[1], p[2]))
      /\ (~Truthy(xrefs_from) /\ ~Truthy(xrefs_to)) =>
           IndicatorsOf(files[Oebps(ChapterFile(p[1], p[2]))]) = << >>

\* The verse (b, c, v) was rendered in a chapter page.
Rendered(k) ==
  /\ KnownName(k[1])
  /\ k[1] \in DOMAIN verses
  /\ k[2] \in DOMAIN verses[k[1]]
  /\ \E i \in 1..Len(verses[k[1]][k[2]]) : verses[k[1]][k[2]][i][1] = k[3]

\* A completed run that rendered a verse with outgoing references only, one
\* with incoming references only, one with both and one with none.
C8_Witness ==
  /\ pc = "done"
  /\ \E k \in DOMAIN xrefs_from \ DOMAIN xrefs_to : Rendered(k)
  /\ \E k \in DOMAIN xrefs_to \ DOMAIN xrefs_from : Rendered(k)
  /\ \E k \in DOMAIN xrefs_from \cap DOMAIN xrefs_to : Rendered(k)
  /\ \E k \in Coords : Rendered(k) /\ ~HasXref(k)

\* No '<' of the text is followed, anywhere, by a '>'.
NoTagLeft(t) == \A i \in 1..Len(t) : \A j \in (i + 1)..Len(t) : ~(t[i] = "<" /\ t[j] = ">")

\* Every whitespace character is a single blank between two other characters.
NoSpaceRunLeft(t) ==
  \A i \in 1..Len(t) :
    IsSpace(t[i]) => (t[i] = " " /\ i > 1 /\ i < Len(t) /\ ~IsSpace(t[i + 1]))

\* C9: strip_mysword_tags is idempotent, strip(strip(t)) = strip(t); what one
\* application returns holds no '<...>' tag and no whitespace that a second
\* application would remove, collapse or trim.
C9_StripIdempotent ==
  /\ pc \in {"stripped", "restripped"} =>
       (NoTagLeft(text_once) /\ NoSpaceRunLeft(text_once))
  /\ pc = "restripped" => text_twice = text_once

\* The stripper applied twice to a text with a tag and whitespace in it, of
\* which it kept something, an unmatched '<' included.
C9_Witness ==
  /\ pc = "restripped"
  /\ \E i \in 1..Len(text_in) : IsSpace(text_in[i])
  /\ \E i \in 1..Len(text_in) : \E j \in (i + 1)..Len(text_in) :
       text_in[i] = "<" /\ text_in[j] = ">"
  /\ Len(text_once) < Len(text_in)
  /\ \E i \in 1..Len(text_once) : text_once[i] = "<"

\* The coordinates with a cross-reference: the keys of either index.
XrefKeys == DOMAIN xrefs_from \cup DOMAIN xrefs_to

\* The positions of a document at which an element of one of the tags stands.
PositionsOf(doc, tags) ==
  SelectSeq([i \in 1..Len(doc) |-> i], LAMBDA i : doc[i].tag \in tags)

\* The i-th section of the cross-reference page: from its h2 heading to the
\* element before the next h2 heading.
SectionOf(doc, i) ==
  SubSeq(doc, PositionsOf(doc, {"h2"})[i],
         IF i < Len(PositionsOf(doc, {"h2"}))
         THEN PositionsOf(doc, {"h2"})[i + 1] - 1
         ELSE Len(doc))

\* The positions of a section's list headings with the given tag and title.
ListHeads(sec, tag, title) ==
  SelectSeq(PositionsOf(sec, {tag}), LAMBDA i : sec[i].text = title)

\* The links of the list whose heading stands at position p of the section:
\* those up to the next list heading.
ListLinks(sec, p) ==
  LinksOf(SubSeq(sec, p + 1,
                 Min({q \in (p + 1)..(Len(sec) + 1) :
                        q = Len(sec) + 1 \/ sec[q].tag \in {"h3", "h4"}}) - 1))

\* The section has a list under the heading iff k is a key of the index, and
\* the list links to the coordinates the index gives for k, in its order.
ListIs(sec, tag, title, index, k) ==
  IF k \in DOMAIN index
  THEN /\ Len(ListHeads(sec, tag, title)) = 1
       /\ Len(ListLinks(sec, ListHeads(sec, tag, title)[1])) = Len(index[k])
       /\ \A j \in 1..Len(index[k]) :
            ListLinks(sec, ListHeads(sec, tag, title)[1])[j].href
              = <<"b">> \o Str(index[k][j][1]) \o <<"c">> \o Str(index[k][j][2])
                  \o <<".", "h", "t", "m", "l", "#">> \o Str(index[k][j][3])
  ELSE ListHeads(sec, tag, title) = << >>

\* The number of keys that come before k in (book, chapter, verse) order.
KeysBefore(k) == Cardinality({q \in XrefKeys : CoordLess(q, k)})

\* The section at the rank of k is that of k: its anchor, its From list, its
\* To list.
SectionIs(doc, k) ==
  /\ SectionOf(doc, KeysBefore(k) + 1)[1].id
       = <<"x">> \o Str(k[1]) \o <<"-">> \o Str(k[2]) \o <<"-">> \o Str(k[3])
  /\ ListIs(SectionOf(doc, KeysBefore(k) + 1), "h4", <<"F", "r", "o", "m">>, xrefs_from, k)
  /\ ListIs(SectionOf(doc, KeysBefore(k) + 1), "h3", <<"T", "o">>, xrefs_to, k)

\* The positions of the manifest, the spine and the navigation that are those
\* of the cross-reference page.
XrefItems == {i \in 1..Len(content_opf.manifest) : content_opf.manifest[i].href = XrefFile}
XrefSpineEntries ==
  {k \in 1..Len(content_opf.spine) :
     \E i \in XrefItems : content_opf.manifest[i].id = content_opf.spine[k]}
XrefNodes == {i \in 1..Len(toc_ncx) : HrefFile(toc_ncx[i].src) = XrefFile}

\* C11: the cross-reference page is written iff the union of the keys of the
\* outgoing and incoming indices is non-empty. When written it has one
\* section per coordinate of the union, in ascending (book, chapter, verse)
\* order, with anchor id x{book}-{chapter}-{verse}; a section has a From list
\* iff the coordinate is a key of the outgoing index, with its targets in
\* index order, and a To list iff it is a key of the incoming index, with its
\* sources in index order; and one manifest item, one spine entry, the last,
\* and one navigation node, the last, are added. When not written, none of
\* the three is added.
C11_CrossReferencePage ==
  pc = "done" =>
    /\ XrefWritten <=> XrefKeys # {}
    /\ XrefWritten =>
         /\ Len(PositionsOf(files[Oebps(XrefFile)], {"h2"})) = Cardinality(XrefKeys)
         /\ \A k \in XrefKeys : SectionIs(files[Oebps(XrefFile)], k)
         /\ Cardinality(XrefItems) = 1
         /\ XrefSpineEntries = {Len(content_opf.spine)}
         /\ XrefNodes = {Len(toc_ncx)}
    /\ ~XrefWritten =>
         (XrefItems = {} /\ XrefSpineEntries = {} /\ XrefNodes = {}
            /\ \A k \in 1..Len(content_opf.spine) : content_opf.spine[k] # XrefItemId)

\* A completed run whose cross-reference page has sections of several
\* coordinates, one with a From and a To list, one with a list of two.
C11_Witness ==
  /\ pc = "done"
  /\ XrefWritten
  /\ Cardinality(XrefKeys) >= 2
  /\ DOMAIN xrefs_from \cap DOMAIN xrefs_to # {}
  /\ \E k \in DOMAIN xrefs_from : Len(xrefs_from[k]) >= 2
====
